---------------------------- MODULE Spec2Model ----------------------------
(***************************************************************************)
(* Model of dashPIB.py: the Streamlit dashboard of municipal GDP.          *)
(*                                                                         *)
(* One script run of main() is one action: the run reads the sidebar       *)
(* widgets of its session, goes through the cached loaders                 *)
(* (obter_anos_disponiveis, obter_ufs_disponiveis,                         *)
(* obter_municipios_por_ufs, obter_dados_filtrados, all of them on top of  *)
(* carregar_dados_db and obter_conexao) and ends in an error (st.stop), in *)
(* a warning (early return) or in the rendered views.                      *)
(***************************************************************************)
EXTENDS Integers, Sequences, FiniteSets, TLC

VARIABLES
    cfgOk,      \* create_engine(st.secrets[...]) would succeed now
    dbUp,       \* pd.read_sql_query would succeed now
    conexao,    \* st.cache_resource of obter_conexao: "absent", "engine", "none"
    cache,      \* the five st.cache_data caches: layer -> (key -> age of the entry)
    widgets,    \* per session: the state of the three filter widgets
    last,       \* per session: what the last script run did
    df,         \* aggregation input: the rows of a table, in load order
    args,       \* aggregation input: the scalar arguments of the call
    out         \* aggregation output of the last call

vars == <<cfgOk, dbUp, conexao, cache, widgets, last, df, args, out>>
pipeVars == <<cfgOk, dbUp, conexao, cache, widgets, last>>
aggVars == <<df, args, out>>

-----------------------------------------------------------------------------
(* Bounds of the model *)

\* Age (in ticks) at which the specification's cache entry would be expired.
\* The code sets no ttl; ages saturate here.
Ttl == 2

Sessions == {"s1", "s2"}

-----------------------------------------------------------------------------
(* The storage: the three tables the queries read *)

\* SELECT DISTINCT ano_pib FROM pib_municipios ORDER BY ano_pib
AnosPib == <<2019, 2020>>

\* SELECT cd_uf, sigla_uf, nome_uf FROM unidade_federacao ORDER BY sigla_uf
UnidadeFederacao ==
    << [cd_uf |-> "PR", sigla_uf |-> "PR"],
       [cd_uf |-> "SP", sigla_uf |-> "SP"] >>

\* municipio, ORDER BY nome_municipio.  Two units hold a municipality of the
\* same name.
Municipio ==
    << [codigo_municipio_dv |-> 1, nome_municipio |-> "Alfa", cd_uf |-> "PR"],
       [codigo_municipio_dv |-> 2, nome_municipio |-> "Alfa", cd_uf |-> "SP"],
       [codigo_municipio_dv |-> 3, nome_municipio |-> "Beta", cd_uf |-> "SP"] >>

\* pib_municipios: the (ano_pib, codigo_municipio_dv) that have a fact row.
\* Municipality 2 has no row for 2020, municipality 3 has no row at all.
PibMunicipios == { <<2019, 1>>, <<2020, 1>>, <<2019, 2>> }

-----------------------------------------------------------------------------
(* Helpers *)

Range(s) == { s[i] : i \in DOMAIN s }

Min(a, b) == IF a <= b THEN a ELSE b

Head5(s, n) == SubSeq(s, 1, Min(n, Len(s)))

\* The sequences without repetition over a set, up to its size.
RECURSIVE Perms(_)
Perms(S) ==
    IF S = {} THEN { <<>> }
    ELSE UNION { { <<x>> \o p : p \in Perms(S \ {x}) } : x \in S }

OrderedSubsets(S) == UNION { Perms(T) : T \in SUBSET S }

\* The column of a table, as a list.
RECURSIVE Column(_, _)
Column(s, col) ==
    IF s = <<>> THEN <<>> ELSE <<Head(s)[col]>> \o Column(Tail(s), col)

\* The first occurrences of the items of a list, in order.
RECURSIVE Unique(_)
Unique(s) ==
    IF s = <<>> THEN <<>>
    ELSE LET r == Unique(SubSeq(s, 1, Len(s) - 1))
             x == s[Len(s)]
         IN IF x \in Range(r) THEN r ELSE Append(r, x)


-----------------------------------------------------------------------------
(* The caches: st.cache_resource and st.cache_data *)

Layers == {"db", "anos", "ufs", "mun", "dados"}

HitTtl(entries, key) == key \in DOMAIN entries /\ entries[key] < Ttl

\* A lookup of st.cache_data(max_entries=..., persist="disk"): no ttl is
\* given, so an entry is served whatever its age.
Hit(entries, key) == key \in DOMAIN entries

\* A computed value is written under its key.
SemStore(entries, key) == entries

Store(entries, key) ==
    IF key \in DOMAIN entries THEN [entries EXCEPT ![key] = 0]
    ELSE (key :> 0) @@ entries

\* The (query, params) key of carregar_dados_db.
QueryAnos == [consulta |-> "anos", params |-> <<>>]
QueryUfs == [consulta |-> "ufs", params |-> <<>>]
QueryMunicipios(ufs) == [consulta |-> "municipios", params |-> ufs]
QueryDados(anos, cods) == [consulta |-> "dados", params |-> anos \o cods]

\* obter_conexao: the engine, or None when create_engine raises.  The
\* function returns None instead of raising, so cache_resource keeps it.
ObterConexao(cx) ==
    IF cx # "absent" THEN [engine |-> cx, cx |-> cx]
    ELSE IF cfgOk THEN [engine |-> "engine", cx |-> "engine"]
    ELSE [engine |-> "none", cx |-> "none"]

\* carregar_dados_db(query, params) on the run state st = [cx, c, log, erro]:
\* a hit, or the connection and the query.  st.stop() raises, so a failed
\* call writes nothing.
CarregarDadosDb(st, key) ==
    IF Hit(st.c.db, key) THEN [ok |-> TRUE, st |-> st]
    ELSE LET e == ObterConexao(st.cx)
             s1 == [st EXCEPT !.cx = e.cx]
         IN IF e.engine = "none"
            THEN [ok |-> FALSE, st |-> [s1 EXCEPT !.erro = "conexao"]]
            ELSE IF dbUp
                 THEN [ok |-> TRUE,
                       st |-> [s1 EXCEPT !.c.db = Store(@, key),
                                         !.log = @ \cup {key}]]
                 ELSE [ok |-> FALSE, st |-> [s1 EXCEPT !.erro = "consulta"]]

\* A st.cache_data function whose body is one carregar_dados_db call.
CachedQuery(st, layer, key, query) ==
    IF Hit(st.c[layer], key) THEN [ok |-> TRUE, st |-> st]
    ELSE LET r == CarregarDadosDb(st, query)
         IN IF r.ok
            THEN [ok |-> TRUE, st |-> [r.st EXCEPT !.c[layer] = Store(@, key)]]
            ELSE r

\* A st.cache_data function that returns without a query.
CachedEmpty(st, layer, key) ==
    [ok |-> TRUE, st |-> [st EXCEPT !.c[layer] = Store(@, key)]]

ObterAnosDisponiveis(st) == CachedQuery(st, "anos", <<>>, QueryAnos)

ObterUfsDisponiveis(st) == CachedQuery(st, "ufs", <<>>, QueryUfs)

\* The rows of: SELECT ... FROM municipio WHERE cd_uf IN (ufs) ORDER BY nome_municipio
MunicipiosDf(ufs) == SelectSeq(Municipio, LAMBDA m : m.cd_uf \in Range(ufs))

ObterMunicipiosSemGuarda(st, ufs) ==
    CachedQuery(st, "mun", ufs, QueryMunicipios(ufs))

ObterMunicipiosPorUfs(st, ufs) ==
    IF Hit(st.c.mun, ufs) THEN [ok |-> TRUE, st |-> st]
    ELSE IF ufs = <<>> THEN CachedEmpty(st, "mun", ufs)
    ELSE CachedQuery(st, "mun", ufs, QueryMunicipios(ufs))

\* The rows of the fact query: ano_pib BETWEEN a AND b AND codigo IN (cods).
DadosDf(anos, cods) ==
    { r \in PibMunicipios : r[1] >= anos[1] /\ r[1] <= anos[2] /\ r[2] \in Range(cods) }

ObterDadosFiltrados(st, anos, ufs, cods) ==
    LET key == <<anos, ufs, cods>>
    IN IF Hit(st.c.dados, key) THEN [ok |-> TRUE, st |-> st]
       ELSE IF ufs = <<>> \/ cods = <<>> THEN CachedEmpty(st, "dados", key)
       ELSE CachedQuery(st, "dados", key, QueryDados(anos, cods))

\* What obter_dados_filtrados returns for the key.
DadosFiltrados(anos, ufs, cods) ==
    IF ufs = <<>> \/ cods = <<>> THEN {} ELSE DadosDf(anos, cods)

-----------------------------------------------------------------------------
(* The sidebar widgets of main() *)

MaxDefaultUfs == 5
MaxDefaultMunicipios == 5

Siglas == Column(UnidadeFederacao, "sigla_uf")

WidgetsOff ==
    [anos |-> [on |-> FALSE, val |-> <<>>],
     ufs |-> [on |-> FALSE, val |-> <<>>],
     mun |-> [on |-> FALSE, opts |-> <<>>, val |-> <<>>]]

\* st.sidebar.slider("Período (Ano)", min, max, (min, max)): a widget that
\* was not drawn in the last run starts from its default.
SliderAnos(w) ==
    IF w.anos.on THEN w.anos.val ELSE <<AnosPib[1], AnosPib[Len(AnosPib)]>>

\* st.sidebar.multiselect("Estado(s) (UF)", siglas, default=siglas[:min(5, n)])
MultiselectUfs(w) ==
    IF w.ufs.on THEN w.ufs.val ELSE Head5(Siglas, MaxDefaultUfs)

\* sorted(municipios_df['nome_municipio'].unique().tolist()); the rows come
\* ordered by name.
MunicipiosDisponiveisNomes(mdf) ==
    Unique(Column(mdf, "nome_municipio"))

\* st.sidebar.multiselect("Município(s)", opts, default=opts[:min(5, n)]): the
\* widget has no key, so with other options it is another widget and
\* starts from its default.  Its value is the list of the names in the
\* order they were chosen.
MultiselectMunicipios(w, opts) ==
    IF w.mun.on /\ w.mun.opts = opts THEN w.mun.val
    ELSE Head5(opts, MaxDefaultMunicipios)

SemMunicipioNunca(nomes) == FALSE

\* if not municipios_selecionados_nomes: st.warning(...); return
SemMunicipio(nomes) == nomes = <<>>

CodigosPorNome(mdf, nomes) ==
    Column(SelectSeq(Municipio, LAMBDA m : m.nome_municipio \in Range(nomes)),
           "codigo_municipio_dv")

\* municipios_df[municipios_df['nome_municipio'].isin(nomes)]['codigo_municipio_dv'].tolist()
CodigosMunicipiosSelecionados(mdf, nomes) ==
    Column(SelectSeq(mdf, LAMBDA m : m.nome_municipio \in Range(nomes)),
           "codigo_municipio_dv")

\* The age of the entry that a fact load of this key finds, -1 when neither
\* obter_dados_filtrados nor carregar_dados_db holds one.
Idade(c, anos, ufs, cods) ==
    IF <<anos, ufs, cods>> \in DOMAIN c.dados THEN c.dados[<<anos, ufs, cods>>]
    ELSE IF QueryDados(anos, cods) \in DOMAIN c.db THEN c.db[QueryDados(anos, cods)]
    ELSE -1

LastNunca ==
    [fim |-> "nunca", anos |-> <<>>, ufs |-> <<>>, nomes |-> <<>>, codigos |-> <<>>,
     log |-> {}, erro |-> "", idade |-> -1, cfg |-> FALSE, db |-> FALSE]

RunStart == [cx |-> conexao, c |-> cache, log |-> {}, erro |-> ""]

\* The end of a run: the caches, the widgets that were drawn, the record.
Fim(st, w, fim, anos, ufs, nomes, cods, idade) ==
    [st |-> st, w |-> w,
     last |-> [fim |-> fim, anos |-> anos, ufs |-> ufs, nomes |-> nomes,
               codigos |-> cods, log |-> st.log, erro |-> st.erro, idade |-> idade,
               cfg |-> cfgOk, db |-> dbUp]]

\* main(), from the fact load on.
MainDados(st, w, anos, ufs, nomes, mdf) ==
    LET cods == CodigosMunicipiosSelecionados(mdf, nomes)
        idade == Idade(st.c, anos, ufs, cods)
        r == ObterDadosFiltrados(st, anos, ufs, cods)
    IN IF ~r.ok THEN Fim(r.st, w, "erro_dados", anos, ufs, nomes, cods, idade)
       ELSE IF DadosFiltrados(anos, ufs, cods) = {}
            THEN Fim(r.st, w, "aviso_sem_dados", anos, ufs, nomes, cods, idade)
            ELSE Fim(r.st, w, "painel", anos, ufs, nomes, cods, idade)

\* main(), from the filters on.
MainFiltros(st, w) ==
    LET anos == SliderAnos(w)
        ufs == MultiselectUfs(w)
        wA == [anos |-> [on |-> TRUE, val |-> anos],
               ufs |-> [on |-> TRUE, val |-> ufs],
               mun |-> WidgetsOff.mun]
        r == ObterMunicipiosPorUfs(st, ufs)
        mdf == MunicipiosDf(ufs)
        opts == MunicipiosDisponiveisNomes(mdf)
        nomes == IF ufs = <<>> THEN <<>> ELSE MultiselectMunicipios(w, opts)
        wB == IF ufs = <<>> THEN wA
              ELSE [wA EXCEPT !.mun = [on |-> TRUE, opts |-> opts, val |-> nomes]]
    IN IF ~r.ok THEN Fim(r.st, wA, "erro_municipios", anos, ufs, <<>>, <<>>, -1)
       ELSE IF SemMunicipio(nomes)
            THEN Fim(r.st, wB, "aviso_municipio", anos, ufs, nomes, <<>>, -1)
            ELSE MainDados(r.st, wB, anos, ufs, nomes, mdf)

\* main(): one script run of a session whose widgets are w.
Main(w) ==
    LET r1 == ObterAnosDisponiveis(RunStart)
        r2 == ObterUfsDisponiveis(r1.st)
    IN IF ~r1.ok THEN Fim(r1.st, WidgetsOff, "erro_catalogo", <<>>, <<>>, <<>>, <<>>, -1)
       ELSE IF ~r2.ok
            THEN Fim(r2.st, WidgetsOff, "erro_catalogo", <<>>, <<>>, <<>>, <<>>, -1)
            ELSE MainFiltros(r2.st, w)

-----------------------------------------------------------------------------
(* The actions: a script run per user interaction, and the environment *)

AnosRanges == { <<a, b>> : a \in Range(AnosPib), b \in Range(AnosPib) }

RunScript(s, w) ==
    LET r == Main(w)
    IN /\ conexao' = r.st.cx
       /\ cache' = r.st.c
       /\ widgets' = [widgets EXCEPT ![s] = r.w]
       /\ last' = [last EXCEPT ![s] = r.last]
       /\ UNCHANGED <<cfgOk, dbUp, aggVars>>

\* The page is opened or reloaded, or a widget that is no filter is used.
Rerun(s) == RunScript(s, widgets[s])

ChangeAnos(s, v) ==
    /\ widgets[s].anos.on
    /\ v[1] <= v[2]
    /\ v # widgets[s].anos.val
    /\ RunScript(s, [widgets[s] EXCEPT !.anos.val = v])

ChangeUfs(s, v) ==
    /\ widgets[s].ufs.on
    /\ v # widgets[s].ufs.val
    /\ RunScript(s, [widgets[s] EXCEPT !.ufs.val = v])

ChangeMunicipios(s, v) ==
    /\ widgets[s].mun.on
    /\ Range(v) \subseteq Range(widgets[s].mun.opts)
    /\ v # widgets[s].mun.val
    /\ RunScript(s, [widgets[s] EXCEPT !.mun.val = v])

\* The configuration is repaired or broken; once an engine is cached the
\* configuration is read no more.
CfgChange ==
    /\ conexao # "engine"
    /\ cfgOk' = ~cfgOk
    /\ UNCHANGED <<dbUp, conexao, cache, widgets, last, aggVars>>

DbChange ==
    /\ dbUp' = ~dbUp
    /\ UNCHANGED <<cfgOk, conexao, cache, widgets, last, aggVars>>

\* Time passes: every entry is one tick older.
Tick ==
    /\ cache' = [l \in Layers |->
                    [k \in DOMAIN cache[l] |-> Min(cache[l][k] + 1, Ttl)]]
    /\ cache' # cache
    /\ UNCHANGED <<cfgOk, dbUp, conexao, widgets, last, aggVars>>

Init ==
    /\ cfgOk \in BOOLEAN
    /\ dbUp \in BOOLEAN
    /\ conexao = "absent"
    /\ cache = [l \in Layers |-> <<>>]
    /\ widgets = [s \in Sessions |-> WidgetsOff]
    /\ last = [s \in Sessions |-> LastNunca]
    /\ df = <<>> /\ args = <<>> /\ out = <<>>

\* What the widgets offer.
UfsChoices == OrderedSubsets(Range(Siglas))
NomesChoices == OrderedSubsets({ m.nome_municipio : m \in Range(Municipio) })

\* One session changes its unit and municipality filters, while the
\* configuration and the storage come and go.
Next ==
    \/ Rerun("s1")
    \/ \E v \in UfsChoices : ChangeUfs("s1", v)
    \/ \E v \in NomesChoices : ChangeMunicipios("s1", v)
    \/ CfgChange
    \/ DbChange

Spec == Init /\ [][Next]_vars

\* One session reruns and changes its municipality filter while time passes.
NextTtl ==
    \/ Rerun("s1")
    \/ \E v \in NomesChoices : ChangeMunicipios("s1", v)
    \/ DbChange
    \/ Tick

SpecTtl == Init /\ [][NextTtl]_vars

\* Two sessions on the one server: the caches are shared, each session has
\* its widgets.  Both choose the units and the municipalities, in one order
\* or the other; the years stay at the whole range.
UfsShare == { <<"PR", "SP">>, <<"SP", "PR">>, <<"SP">> }
NomesShare == { <<"Alfa", "Beta">>, <<"Beta", "Alfa">>, <<"Alfa">> }

InitShare == Init /\ cfgOk /\ dbUp

NextShare ==
    \E s \in Sessions :
        \/ Rerun(s)
        \/ \E v \in UfsShare : ChangeUfs(s, v)
        \/ \E v \in NomesShare : ChangeMunicipios(s, v)

SpecShare == InitShare /\ [][NextShare]_vars

-----------------------------------------------------------------------------
(* The fact table and the aggregations *)

RECURSIVE SumCol(_, _)
SumCol(t, col) == IF t = <<>> THEN 0 ELSE Head(t)[col] + SumCol(Tail(t), col)

RECURSIVE SeqsOfLen(_, _)
SeqsOfLen(S, n) ==
    IF n = 0 THEN { <<>> }
    ELSE { Append(s, x) : s \in SeqsOfLen(S, n - 1), x \in S }

SeqsUpTo(S, n) == UNION { SeqsOfLen(S, k) : k \in 0..n }

\* int(a / b) for b > 0: the quotient, cut towards zero.
TruncDiv(a, b) == IF a >= 0 THEN a \div b ELSE -((-a) \div b)

\* int(row['vl_pib'] / row['vl_pib_per_capta']) if row['vl_pib_per_capta'] > 0 else 0
PopulacaoEstimada(vl_pib, vl_pib_per_capta) ==
    IF vl_pib_per_capta > 0 THEN TruncDiv(vl_pib, vl_pib_per_capta) ELSE 0

RECURSIVE ComPopulacao(_)
ComPopulacao(t) ==
    IF t = <<>> THEN <<>>
    ELSE << Head(t) @@ [populacao_estimada |->
                          PopulacaoEstimada(Head(t).vl_pib, Head(t).vl_pib_per_capta)] >>
         \o ComPopulacao(Tail(t))

\* if 'populacao_estimada' not in df.columns and not df.empty: df[...] = df.apply(...)
AdicionarPopulacao(t) ==
    IF t # <<>> /\ "populacao_estimada" \notin DOMAIN t[1] THEN ComPopulacao(t) ELSE t

\* A fact row as the query returns it; the specifications vary the columns
\* their aggregation reads.
RowBase ==
    [ano_pib |-> 2020, codigo_municipio_dv |-> 1, vl_pib |-> 0, vl_pib_per_capta |-> 0,
     vl_agropecuaria |-> 0, vl_industria |-> 0, vl_servicos |-> 0, vl_administracao |-> 0]

\* df_filtrado[df_filtrado['ano_pib'] == ano]
DoAno(t, ano) == SelectSeq(t, LAMBDA r : r.ano_pib = ano)

\* n / d for d > 0, rounded to the nearest integer, a tie to the even one: the
\* rounding of the format "{:.2f}" on hundredths.
RoundDiv(n, d) ==
    LET q == n \div d
        r == n - q * d
    IN IF 2 * r < d THEN q
       ELSE IF 2 * r > d THEN q + 1
       ELSE IF q % 2 = 0 THEN q ELSE q + 1

TemVariacaoNaoZero(pib_total_primeiro) == pib_total_primeiro # 0

\* if pib_total_primeiro > 0:
TemVariacao(pib_total_primeiro) == pib_total_primeiro > 0

\* variacao_texto, variacao_cor of criar_cards_kpi: "N/A", or the change in
\* percent as the fraction num / den and as the hundredths the text shows.
Variacao(df_ultimo_ano, df_primeiro_ano, primeiro_ano, ultimo_ano) ==
    LET pib_total_ultimo == SumCol(df_ultimo_ano, "vl_pib")
        pib_total_primeiro == SumCol(df_primeiro_ano, "vl_pib")
        na == [na |-> TRUE, num |-> 0, den |-> 1, centesimos |-> 0, cor |-> "gray"]
    IN IF primeiro_ano # ultimo_ano /\ df_primeiro_ano # <<>>
       THEN IF TemVariacao(pib_total_primeiro)
            THEN [na |-> FALSE,
                  num |-> (pib_total_ultimo - pib_total_primeiro) * 100,
                  den |-> pib_total_primeiro,
                  centesimos |-> RoundDiv((pib_total_ultimo - pib_total_primeiro) * 10000,
                                          pib_total_primeiro),
                  cor |-> IF pib_total_ultimo - pib_total_primeiro >= 0
                          THEN "green" ELSE "red"]
            ELSE na
       ELSE na

SetoresOrdemSpec ==
    << <<"Agropecuária", "vl_agropecuaria">>, <<"Indústria", "vl_industria">>,
       <<"Serviços", "vl_servicos">> >>

\* setores_valores: the keys of the dict in their order, each with its column.
SetoresValores ==
    << <<"Serviços", "vl_servicos">>, <<"Indústria", "vl_industria">>,
       <<"Agropecuária", "vl_agropecuaria">>, <<"Administração", "vl_administracao">> >>

\* max(setores_valores, key=setores_valores.get): the keys are gone through
\* in order and a later one wins only with a greater value.
RECURSIVE MaxKey(_, _, _)
MaxKey(t, setores, best) ==
    IF setores = <<>> THEN best
    ELSE IF SumCol(t, Head(setores)[2]) > SumCol(t, best[2])
         THEN MaxKey(t, Tail(setores), Head(setores))
         ELSE MaxKey(t, Tail(setores), best)

MaiorSetor(df_ultimo_ano) ==
    LET m == MaxKey(df_ultimo_ano, Tail(SetoresValores), Head(SetoresValores))
    IN [setor |-> m[1], valor |-> SumCol(df_ultimo_ano, m[2])]

CardsKpiSemGuarda(df_ultimo_ano, df_primeiro_ano, primeiro_ano, ultimo_ano) ==
    [info |-> FALSE,
     pib_total |-> SumCol(df_ultimo_ano, "vl_pib"),
     variacao |-> Variacao(df_ultimo_ano, df_primeiro_ano, primeiro_ano, ultimo_ano),
     maior_setor |-> MaiorSetor(df_ultimo_ano)]

\* criar_cards_kpi: the "no data" notice, or the cards.
CardsKpi(df_ultimo_ano, df_primeiro_ano, primeiro_ano, ultimo_ano) ==
    IF df_ultimo_ano = <<>> THEN [info |-> TRUE]
    ELSE [info |-> FALSE,
          pib_total |-> SumCol(df_ultimo_ano, "vl_pib"),
          variacao |-> Variacao(df_ultimo_ano, df_primeiro_ano, primeiro_ano, ultimo_ano),
          maior_setor |-> MaiorSetor(df_ultimo_ano)]

PipeIdle ==
    /\ cfgOk = TRUE /\ dbUp = TRUE /\ conexao = "absent"
    /\ cache = [l \in Layers |-> <<>>]
    /\ widgets = [s \in Sessions |-> WidgetsOff]
    /\ last = [s \in Sessions |-> LastNunca]

(* obter_dados_filtrados, after the query: the population column *)

MaxRowsPop == 2
MaxPib == 3
MaxPerCapita == 2

PopRows ==
    { [RowBase EXCEPT !.vl_pib = a, !.vl_pib_per_capta = b] :
        a \in -MaxPib..MaxPib, b \in -1..MaxPerCapita }

InitPop ==
    /\ PipeIdle
    /\ df \in SeqsUpTo(PopRows, MaxRowsPop)
    /\ args = <<>>
    /\ out = <<>>

\* Lines 241-247 on the table the query returned.
Populacao ==
    /\ out = <<>>
    /\ df' = AdicionarPopulacao(df)
    /\ out' = <<"populacao_estimada">>
    /\ UNCHANGED <<pipeVars, args>>

SpecPop == InitPop /\ [][Populacao]_vars

(* main(), the key indicators: the slices of the first and last year *)

MaxRowsKpi == 3
KpiValores == {-100, 0, 50, 100, 150}

KpiRows ==
    { [RowBase EXCEPT !.ano_pib = a, !.vl_pib = v] : a \in Range(AnosPib), v \in KpiValores }

InitKpi ==
    /\ PipeIdle
    /\ df \in SeqsUpTo(KpiRows, MaxRowsKpi) \ { <<>> }
    /\ args \in { [anos |-> a] : a \in { x \in AnosRanges : x[1] <= x[2] } }
    /\ out = <<>>

\* Lines 703-705: df_ultimo_ano, df_primeiro_ano and criar_cards_kpi.
IndicadoresChave ==
    /\ out = <<>>
    /\ out' = CardsKpi(DoAno(df, args.anos[2]), DoAno(df, args.anos[1]),
                       args.anos[1], args.anos[2])
    /\ UNCHANGED <<pipeVars, df, args>>

SpecKpi == InitKpi /\ [][IndicadoresChave]_vars

MaxRowsSetor == 2
SetorValores == {5, 10}

SetorRows ==
    { [RowBase EXCEPT !.vl_pib = 100, !.vl_agropecuaria = a, !.vl_industria = i,
                      !.vl_servicos = s, !.vl_administracao = p] :
        a \in SetorValores, i \in SetorValores, s \in SetorValores, p \in SetorValores }

InitSetor ==
    /\ PipeIdle
    /\ df \in SeqsUpTo(SetorRows, MaxRowsSetor) \ { <<>> }
    /\ args = [anos |-> <<2020, 2020>>]
    /\ out = <<>>

SpecSetor == InitSetor /\ [][IndicadoresChave]_vars

(* criar_graficos_ranking on the slice of the last year *)

NumRankingMin == 5
NumRankingDefault == 10
NumRankingMax == 20
MaxRowsRank == 6

\* valor_col
ValorCol(tipo_visualizacao) ==
    IF tipo_visualizacao = "PIB Total" THEN "vl_pib" ELSE "vl_pib_per_capta"

\* DataFrame.sort_values(col, ascending=...) with the default kind, which is
\* not stable: rows come out ordered by the column, and rows with equal
\* values in any order.  The set of the tables it may return.
RECURSIVE SortValues(_, _, _)
SortValues(S, col, ascending) ==
    IF S = {} THEN { <<>> }
    ELSE UNION { { <<x>> \o p : p \in SortValues(S \ {x}, col, ascending) } :
                 x \in { y \in S : \A z \in S : IF ascending THEN y[col] <= z[col]
                                                 ELSE y[col] >= z[col] } }

SemHead(t, n) == t

\* DataFrame.head(n)
HeadN(t, n) == SubSeq(t, 1, Min(n, Len(t)))

\* The slices the ranking is run on: municipality i holds 100 * (i - 1) or
\* 100 * i in the total, so neighbours may tie, and the per capita column
\* runs the other way.
RECURSIVE RankSlices(_)
RankSlices(k) ==
    IF k = 0 THEN { <<>> }
    ELSE { Append(s, [RowBase EXCEPT !.codigo_municipio_dv = k, !.vl_pib = v,
                                     !.vl_pib_per_capta = 100 * (MaxRowsRank + 1) - v]) :
             s \in RankSlices(k - 1), v \in { 100 * (k - 1), 100 * k } }

InitRank ==
    /\ PipeIdle
    /\ df \in UNION { RankSlices(k) : k \in 0..MaxRowsRank }
    /\ args \in [tipo : {"PIB Total", "PIB Per Capita"},
                 num_ranking : {NumRankingMin, NumRankingDefault, NumRankingMax},
                 menores : BOOLEAN]
    /\ out = <<>>

\* The two bar charts: df_ranking, and df_ranking_inv when the box is ticked.
CriarGraficosRanking ==
    /\ out = <<>>
    /\ IF df = <<>>
       THEN out' = [info |-> TRUE]
       ELSE \E top \in SortValues(Range(df), ValorCol(args.tipo), FALSE) :
            \E bottom \in SortValues(Range(df), ValorCol(args.tipo), TRUE) :
                out' = [info |-> FALSE,
                        df_ranking |-> HeadN(top, args.num_ranking),
                        inv |-> args.menores,
                        df_ranking_inv |-> IF args.menores
                                           THEN HeadN(bottom, args.num_ranking)
                                           ELSE <<>>]
    /\ UNCHANGED <<pipeVars, df, args>>

SpecRank == InitRank /\ [][CriarGraficosRanking]_vars

(* The views of main() below the key indicators *)

\* The columns of the joined tables that the views read besides the values.
\* A coordinate is text here: "NaN" is the missing one.
RowGeo ==
    RowBase @@ [nome_municipio |-> "Alfa", sigla_uf |-> "PR", nome_uf |-> "Paraná",
                cd_regiao |-> 4, latitude |-> "-25.4", longitude |-> "-49.3"]

\* The years of a table in ascending order, as groupby('ano_pib') leaves them.
RECURSIVE AnosOrdenados(_)
AnosOrdenados(S) ==
    IF S = {} THEN <<>>
    ELSE LET m == CHOOSE x \in S : \A y \in S : x <= y
         IN <<m>> \o AnosOrdenados(S \ {m})

\* groupby('ano_pib')[y_col].sum() or .mean(): one value per year, as a
\* fraction with a positive denominator.
DfEvolucao(t, tipo_visualizacao) ==
    LET anos == AnosOrdenados({ t[i].ano_pib : i \in DOMAIN t })
        valor(a) == IF tipo_visualizacao = "PIB Total"
                    THEN [num |-> SumCol(DoAno(t, a), "vl_pib"), den |-> 1]
                    ELSE [num |-> SumCol(DoAno(t, a), "vl_pib_per_capta"),
                          den |-> Len(DoAno(t, a))]
    IN [i \in 1..Len(anos) |-> [ano_pib |-> anos[i], valor |-> valor(anos[i])]]

\* One element of Series.pct_change() * 100 in floating point: a number, an
\* infinity when only the previous value is zero, NaN when both are.
PctChange(prev, cur) ==
    LET n == cur.num * prev.den - prev.num * cur.den
        d == prev.num * cur.den
    IN IF d = 0
       THEN [tipo |-> IF n > 0 THEN "inf" ELSE IF n < 0 THEN "-inf" ELSE "nan",
             num |-> 0, den |-> 1]
       ELSE IF d > 0 THEN [tipo |-> "num", num |-> n * 100, den |-> d]
       ELSE [tipo |-> "num", num |-> -(n * 100), den |-> -d]

NaN == [tipo |-> "nan", num |-> 0, den |-> 1]

\* DataFrame.dropna(): the rows with a NaN go, an infinity is no NaN.
DropNaTaxa(rows) == SelectSeq(rows, LAMBDA r : r.taxa_crescimento.tipo # "nan")

\* criar_graficos_evolucao: the area chart and, with more than one year, the
\* bars of the growth rate.
GraficosEvolucao(t, tipo_visualizacao) ==
    IF t = <<>> THEN [info |-> TRUE, df_evolucao |-> <<>>, tem_taxa |-> FALSE, taxa |-> <<>>]
    ELSE LET ev == DfEvolucao(t, tipo_visualizacao)
             comTaxa == [i \in 1..Len(ev) |->
                            [ano_pib |-> ev[i].ano_pib,
                             taxa_crescimento |->
                                 IF i = 1 THEN NaN
                                 ELSE PctChange(ev[i - 1].valor, ev[i].valor)]]
         IN [info |-> FALSE, df_evolucao |-> ev, tem_taxa |-> Len(ev) > 1,
             taxa |-> IF Len(ev) > 1 THEN DropNaTaxa(comTaxa) ELSE <<>>]

SetoresColunas == <<"vl_agropecuaria", "vl_industria", "vl_servicos", "vl_administracao">>

\* criar_graficos_setoriais: the sums per unit and the sums of the slice.
GraficosSetoriais(df_ultimo_ano) ==
    IF df_ultimo_ano = <<>> THEN [info |-> TRUE, df_setorial_uf |-> {}, total_setorial |-> <<>>]
    ELSE LET daUf(u) == SelectSeq(df_ultimo_ano, LAMBDA r : r.sigla_uf = u)
         IN [info |-> FALSE,
             df_setorial_uf |->
                 { [sigla_uf |-> u,
                    valores |-> [i \in 1..Len(SetoresColunas) |->
                                    SumCol(daUf(u), SetoresColunas[i])]] :
                   u \in { df_ultimo_ano[i].sigla_uf : i \in DOMAIN df_ultimo_ano } },
             total_setorial |-> [i \in 1..Len(SetoresColunas) |->
                                    SumCol(df_ultimo_ano, SetoresColunas[i])]]

\* DataFrame.dropna(subset=['latitude', 'longitude', valor_col]); the value
\* columns hold a number in every row of this model.
DropNa(t, subset) ==
    SelectSeq(t, LAMBDA r : \A c \in subset : r[c] # "NaN")

\* groupby(['cd_regiao', 'nome_uf']).agg(sum of the value, count of the names)
DfRegiao(df_ultimo_ano, valor_col) ==
    LET doGrupo(g) == SelectSeq(df_ultimo_ano,
                                LAMBDA r : r.cd_regiao = g[1] /\ r.nome_uf = g[2])
    IN { [cd_regiao |-> g[1], nome_uf |-> g[2],
          valor_agregado |-> SumCol(doGrupo(g), valor_col),
          num_municipios |-> Len(doGrupo(g))] :
         g \in { <<df_ultimo_ano[i].cd_regiao, df_ultimo_ano[i].nome_uf>> :
                 i \in DOMAIN df_ultimo_ano } }

\* criar_graficos_geograficos: a notice, or the map and the tree of regions.
GraficosGeograficos(df_ultimo_ano, tipo_visualizacao) ==
    LET df_geo_valid == DropNa(df_ultimo_ano, {"latitude", "longitude"})
        nada == [info |-> TRUE, mapa |-> <<>>, tem_regiao |-> FALSE, df_regiao |-> {}]
    IN IF df_ultimo_ano = <<>> THEN nada
       ELSE IF df_geo_valid = <<>> THEN nada
       ELSE [info |-> FALSE, mapa |-> df_geo_valid, tem_regiao |-> TRUE,
             df_regiao |-> DfRegiao(df_ultimo_ano, ValorCol(tipo_visualizacao))]

\* criar_tabela_dados
TabelaDados(t, mostrar_tabela) ==
    [mostrada |-> mostrar_tabela /\ t # <<>>,
     info |-> mostrar_tabela /\ t = <<>>,
     linhas |-> IF mostrar_tabela THEN t ELSE <<>>]

\* The outcomes of criar_graficos_ranking on a slice.
GraficosRanking(df_ultimo_ano, tipo_visualizacao, num_ranking, menores) ==
    IF df_ultimo_ano = <<>>
    THEN { [info |-> TRUE, df_ranking |-> <<>>, inv |-> FALSE, df_ranking_inv |-> <<>>] }
    ELSE { [info |-> FALSE,
            df_ranking |-> HeadN(top, num_ranking),
            inv |-> menores,
            df_ranking_inv |-> IF menores THEN HeadN(bottom, num_ranking) ELSE <<>>] :
           top \in SortValues(Range(df_ultimo_ano), ValorCol(tipo_visualizacao), FALSE),
           bottom \in SortValues(Range(df_ultimo_ano), ValorCol(tipo_visualizacao), TRUE) }

\* main() once df_filtrado is loaded: the warning and return on an empty
\* table; else the indicators, the four tabs and the table.
Painel ==
    /\ out = <<>>
    /\ IF df = <<>>
       THEN out' = [fim |-> "aviso_sem_dados"]
       ELSE LET df_ultimo_ano == DoAno(df, args.anos[2])
                df_primeiro_ano == DoAno(df, args.anos[1])
            IN \E rk \in GraficosRanking(df_ultimo_ano, args.tipo,
                                         args.num_ranking, args.menores) :
                 out' = [fim |-> "painel",
                         kpi |-> CardsKpi(df_ultimo_ano, df_primeiro_ano,
                                          args.anos[1], args.anos[2]),
                         evolucao |-> GraficosEvolucao(df, args.tipo),
                         ranking |-> rk,
                         setorial |-> GraficosSetoriais(df_ultimo_ano),
                         geo |-> GraficosGeograficos(df_ultimo_ano, args.tipo),
                         tabela |-> TabelaDados(df, args.mostrar_tabela)]
    /\ UNCHANGED <<pipeVars, df, args>>

(* The geographic tab on slices with and without coordinates *)

MaxRowsGeo == 2

UfsGeo ==
    { [sigla_uf |-> "PR", nome_uf |-> "Paraná", cd_regiao |-> 4],
      [sigla_uf |-> "SP", nome_uf |-> "São Paulo", cd_regiao |-> 3] }

\* Slices of the last year: municipality k holds 100 * k, in either unit,
\* with or without each coordinate.
RECURSIVE GeoSlices(_)
GeoSlices(k) ==
    IF k = 0 THEN { <<>> }
    ELSE { Append(s, [RowGeo EXCEPT !.codigo_municipio_dv = k, !.vl_pib = 100 * k,
                                    !.vl_pib_per_capta = 10 * k,
                                    !.sigla_uf = u.sigla_uf, !.nome_uf = u.nome_uf,
                                    !.cd_regiao = u.cd_regiao,
                                    !.latitude = la, !.longitude = lo]) :
             s \in GeoSlices(k - 1), u \in UfsGeo,
             la \in {"NaN", "-25.4"}, lo \in {"NaN", "-49.3"} }

InitGeo ==
    /\ PipeIdle
    /\ df \in UNION { GeoSlices(k) : k \in 1..MaxRowsGeo }
    /\ args \in [anos : { <<2020, 2020>> }, tipo : {"PIB Total", "PIB Per Capita"},
                 num_ranking : {NumRankingDefault}, menores : {FALSE},
                 mostrar_tabela : BOOLEAN]
    /\ out = <<>>

SpecGeo == InitGeo /\ [][Painel]_vars

(* The evolution tab on tables of up to three years *)

MaxRowsEvol == 3
AnosEvol == {2019, 2020, 2021}
EvolValores == {0, 100, 150}

\* Fact tables of the years 2019 to 2021: row k is municipality k in one of
\* the years, with the same number in the total and in the per capita column.
RECURSIVE EvolTables(_)
EvolTables(k) ==
    IF k = 0 THEN { <<>> }
    ELSE { Append(s, [RowGeo EXCEPT !.codigo_municipio_dv = k, !.ano_pib = a,
                                    !.vl_pib = v, !.vl_pib_per_capta = v]) :
             s \in EvolTables(k - 1), a \in AnosEvol, v \in EvolValores }

InitEvol ==
    /\ PipeIdle
    /\ df \in UNION { EvolTables(k) : k \in 0..MaxRowsEvol }
    /\ args \in [anos : { <<2019, 2021>> }, tipo : {"PIB Total", "PIB Per Capita"},
                 num_ranking : {NumRankingDefault}, menores : {FALSE},
                 mostrar_tabela : {TRUE}]
    /\ out = <<>>

SpecEvol == InitEvol /\ [][Painel]_vars

-----------------------------------------------------------------------------
(* What the claims speak of *)

\* The run read the unit filter.
PastCatalog(l) == l.fim \notin {"nunca", "erro_catalogo"}

\* The run read the municipality filter.
PastFilters(l) == l.fim \in {"aviso_municipio", "erro_dados", "aviso_sem_dados", "painel"}

\* The run called the fact load.
FactLoad(l) == l.fim \in {"erro_dados", "aviso_sem_dados", "painel"}

\* The municipalities of the table whose unit is selected.
MunicipiosDasUfs(ufs) ==
    { m.codigo_municipio_dv : m \in { x \in Range(Municipio) : x.cd_uf \in Range(ufs) } }

\* The fact queries the run sent to the storage, and their municipality codes.
DadosFetched(l) == { q \in l.log : q.consulta = "dados" }
FetchCodes(l) ==
    UNION { Range(SubSeq(q.params, 3, Len(q.params))) : q \in DadosFetched(l) }

(***************************************************************************)
(* C1. Cascade invariant: after every run, whatever the unit and           *)
(* municipality changes before it, the municipality codes resolved for the *)
(* fact fetch, and the codes of every fact query sent, belong to           *)
(* municipalities of the units selected in that run, and those units are   *)
(* the ones the unit widget holds.                                         *)
(***************************************************************************)
C1_CascadeInvariant ==
    \A s \in Sessions :
        /\ Range(last[s].codigos) \cup FetchCodes(last[s])
              \subseteq MunicipiosDasUfs(last[s].ufs)
        /\ widgets[s].ufs.on => widgets[s].ufs.val = last[s].ufs

\* The session once loaded the facts of SP's Alfa (code 2); now PR alone is
\* selected, with the same name, and the codes are PR's.
C1_Witness ==
    /\ last["s1"].fim = "painel"
    /\ last["s1"].ufs = <<"PR">>
    /\ last["s1"].nomes = <<"Alfa">>
    /\ last["s1"].codigos = <<1>>
    /\ \E k \in DOMAIN cache.dados : k[2] = <<"SP">> /\ 2 \in Range(k[3])

(***************************************************************************)
(* C2, as claimed.  Wildcard: with an empty municipality selection and a   *)
(* non-empty unit set, the resolved codes are all the codes of the units   *)
(* and the fact load is run for them.                                      *)
(***************************************************************************)
C2_WildcardAsClaimed ==
    \A s \in Sessions :
        (PastFilters(last[s]) /\ last[s].nomes = <<>> /\ last[s].ufs # <<>>)
            => /\ Range(last[s].codigos) = MunicipiosDasUfs(last[s].ufs)
               /\ FactLoad(last[s])

(***************************************************************************)
(* C2, amended.  An empty municipality selection means none: the run ends  *)
(* with the warning, resolves no code and calls no fact load; with a       *)
(* non-empty selection the codes are those of the selected names among the *)
(* municipalities of the units.                                            *)
(***************************************************************************)
C2_EmptyMeansNone ==
    \A s \in Sessions :
        PastFilters(last[s]) =>
            IF last[s].nomes = <<>>
            THEN /\ last[s].fim = "aviso_municipio"
                 /\ last[s].codigos = <<>>
                 /\ DadosFetched(last[s]) = {}
            ELSE /\ FactLoad(last[s])
                 /\ Range(last[s].codigos) =
                      { m.codigo_municipio_dv :
                          m \in { x \in Range(Municipio) :
                                    /\ x.cd_uf \in Range(last[s].ufs)
                                    /\ x.nome_municipio \in Range(last[s].nomes) } }

C2_Witness ==
    /\ last["s1"].fim = "aviso_municipio"
    /\ last["s1"].ufs = <<"SP">>
    /\ last["s1"].nomes = <<>>
    /\ widgets["s1"].mun.on

(***************************************************************************)
(* C5, as claimed.  No failure leaves an entry in a cache: a run made      *)
(* while the configuration and the storage are usable connects again,      *)
(* does not end in an error and finds no null engine in the resource       *)
(* cache, whatever failed before it.                                       *)
(***************************************************************************)
C5_NoPoison ==
    \A s \in Sessions :
        (last[s].fim # "nunca" /\ last[s].cfg /\ last[s].db)
            => (last[s].erro = "" /\ conexao # "none")

(***************************************************************************)
(* C6. Empty selection short-circuits.  In every state, the municipality   *)
(* lookup of no unit and the fact load of no unit or of no code return an  *)
(* empty table, send no query and raise no error, whatever the storage;    *)
(* and a run whose unit selection or resolved code list is empty ends with *)
(* the warning, before the fact load and the views, with no error and no   *)
(* fact query (with no unit: with no query at all).                        *)
(***************************************************************************)
C6_EmptyShortCircuits ==
    /\ LET r == ObterMunicipiosPorUfs(RunStart, <<>>)
       IN r.ok /\ r.st.log = {} /\ r.st.erro = "" /\ MunicipiosDf(<<>>) = <<>>
    /\ \A anos \in { a \in AnosRanges : a[1] <= a[2] }, ufs \in UfsChoices,
          cods \in { <<>>, <<1>>, <<1, 2>> } :
          (ufs = <<>> \/ cods = <<>>) =>
              LET r == ObterDadosFiltrados(RunStart, anos, ufs, cods)
              IN r.ok /\ r.st.log = {} /\ r.st.erro = ""
                 /\ DadosFiltrados(anos, ufs, cods) = {}
    /\ \A s \in Sessions :
          (/\ PastCatalog(last[s])
           /\ \/ last[s].ufs = <<>>
              \/ PastFilters(last[s]) /\ last[s].codigos = <<>>)
            => /\ last[s].fim = "aviso_municipio"
               /\ last[s].erro = ""
               /\ DadosFetched(last[s]) = {}
               /\ last[s].ufs = <<>> => last[s].log = {}

\* No unit selected while the storage is down: a warning, not an error.
C6_Witness ==
    /\ last["s1"].fim = "aviso_municipio"
    /\ last["s1"].ufs = <<>>
    /\ ~last["s1"].db
    /\ <<>> \in DOMAIN cache.mun

(***************************************************************************)
(* C3, as claimed.  Cache ttl: a fact load that finds an entry younger     *)
(* than the ttl sends no query, and a fact load that finds an entry whose  *)
(* ttl has elapsed sends the query again.                                  *)
(***************************************************************************)
C3_TtlAsClaimed ==
    \A s \in Sessions :
        FactLoad(last[s]) =>
            /\ (last[s].idade >= 0 /\ last[s].idade < Ttl) => DadosFetched(last[s]) = {}
            /\ (last[s].idade >= Ttl /\ last[s].db) => DadosFetched(last[s]) # {}

(***************************************************************************)
(* C3, amended.  The caches have no ttl: a fact load that finds an entry   *)
(* of its key, of whatever age, sends no query and cannot fail (the entry  *)
(* never expires); a fact load that finds none sends exactly one query     *)
(* when it succeeds.                                                       *)
(***************************************************************************)
C3_NoExpiry ==
    \A s \in Sessions :
        FactLoad(last[s]) =>
            IF last[s].idade >= 0
            THEN DadosFetched(last[s]) = {} /\ last[s].fim # "erro_dados"
            ELSE last[s].fim # "erro_dados" => Cardinality(DadosFetched(last[s])) = 1

\* The views are drawn from an entry whose ttl would have elapsed, with the
\* storage down and no query sent.
C3_Witness ==
    /\ last["s1"].fim = "painel"
    /\ last["s1"].idade = Ttl
    /\ ~last["s1"].db
    /\ last["s1"].log = {}

(***************************************************************************)
(* C7, as claimed.  Every loaded fact row has an estimated population of   *)
(* 0 when the per capita value is not positive, of the quotient            *)
(* vl_pib / vl_pib_per_capta otherwise (read to the whole number the       *)
(* column holds: less than one unit away), and never a negative one.       *)
(***************************************************************************)
C7_PopulationGuard ==
    out # <<>> =>
        \A i \in DOMAIN df :
            LET r == df[i] IN
            /\ r.vl_pib_per_capta <= 0 => r.populacao_estimada = 0
            /\ r.vl_pib_per_capta > 0 =>
                 /\ r.populacao_estimada * r.vl_pib_per_capta - r.vl_pib < r.vl_pib_per_capta
                 /\ r.vl_pib - r.populacao_estimada * r.vl_pib_per_capta < r.vl_pib_per_capta
            /\ r.populacao_estimada >= 0

\* The total of vl_pib over the rows of one year, written from the table.
RECURSIVE TotalAno(_, _, _)
TotalAno(t, ano, i) ==
    IF i = 0 THEN 0
    ELSE (IF t[i].ano_pib = ano THEN t[i].vl_pib ELSE 0) + TotalAno(t, ano, i - 1)

TemAno(t, ano) == \E i \in DOMAIN t : t[i].ano_pib = ano

KpiFeito == out # <<>> /\ ~out.info

(***************************************************************************)
(* C8, as claimed.  The change shown is absent when the two years are the  *)
(* same or the total of the first year is zero, and for every other total  *)
(* of the first year it is (final - start) / start * 100.                  *)
(***************************************************************************)
C8_DeltaAsClaimed ==
    KpiFeito =>
        LET start == TotalAno(df, args.anos[1], Len(df))
            final == TotalAno(df, args.anos[2], Len(df))
        IN IF args.anos[1] = args.anos[2] \/ start = 0
           THEN out.variacao.na
           ELSE /\ ~out.variacao.na
                /\ out.variacao.num * start = (final - start) * 100 * out.variacao.den

(***************************************************************************)
(* C8, amended.  When the slice of the last year is not empty, the change  *)
(* is absent when the two years are the same, when the first year has no   *)
(* row, or when its total is zero or negative; for every positive total    *)
(* of the first year it is (final - start) / start * 100, shown to two     *)
(* decimals (the hundredths nearest to it).                                *)
(***************************************************************************)
C8_Delta ==
    KpiFeito =>
        LET start == TotalAno(df, args.anos[1], Len(df))
            final == TotalAno(df, args.anos[2], Len(df))
            exato == (final - start) * 10000
            erro2 == 2 * (out.variacao.centesimos * start - exato)
        IN IF args.anos[1] = args.anos[2] \/ ~TemAno(df, args.anos[1]) \/ start <= 0
           THEN out.variacao.na
           ELSE /\ ~out.variacao.na
                /\ out.variacao.den > 0
                /\ out.variacao.num * start = (final - start) * 100 * out.variacao.den
                /\ erro2 <= start /\ -erro2 <= start

\* Totals of 100 and 150 show 50.00, and a negative total of the first year
\* shows "N/A".
C8_Witness ==
    /\ KpiFeito
    /\ args.anos = <<2019, 2020>>
    /\ TotalAno(df, 2019, Len(df)) = 100 /\ TotalAno(df, 2020, Len(df)) = 150
    /\ ~out.variacao.na /\ out.variacao.centesimos = 5000

\* The sum of one sector over the slice of the last year.
RECURSIVE TotalSetor(_, _, _, _)
TotalSetor(t, ano, col, i) ==
    IF i = 0 THEN 0
    ELSE (IF t[i].ano_pib = ano THEN t[i][col] ELSE 0) + TotalSetor(t, ano, col, i - 1)

Soma(col) == TotalSetor(df, args.anos[2], col, Len(df))

(***************************************************************************)
(* C9, as claimed.  The dominant sector is the greatest of the sums of     *)
(* agriculture, industry and services only, the first of them in that      *)
(* order on a tie.                                                         *)
(***************************************************************************)
C9_DominantAsClaimed ==
    KpiFeito =>
        LET a == Soma("vl_agropecuaria")
            i == Soma("vl_industria")
            s == Soma("vl_servicos")
        IN out.maior_setor.setor =
              IF a >= i /\ a >= s THEN "Agropecuária"
              ELSE IF i >= s THEN "Indústria" ELSE "Serviços"

(***************************************************************************)
(* C9, amended.  For every non-empty slice of the last year the dominant   *)
(* sector is the greatest of the sums of the four sectors services,        *)
(* industry, agriculture and administration, and on a tie the first of     *)
(* them in that order.                                                     *)
(***************************************************************************)
C9_Dominant ==
    KpiFeito =>
        LET a == Soma("vl_agropecuaria")
            i == Soma("vl_industria")
            s == Soma("vl_servicos")
            p == Soma("vl_administracao")
        IN /\ out.maior_setor.setor =
                IF s >= i /\ s >= a /\ s >= p THEN "Serviços"
                ELSE IF i >= a /\ i >= p THEN "Indústria"
                ELSE IF a >= p THEN "Agropecuária" ELSE "Administração"
           /\ out.maior_setor.valor \in {a, i, s, p}
           /\ \A v \in {a, i, s, p} : v <= out.maior_setor.valor

\* Agriculture 10, industry 10, services 5: industry is shown.
C9_Witness ==
    /\ KpiFeito
    /\ Soma("vl_agropecuaria") = 10 /\ Soma("vl_industria") = 10
    /\ Soma("vl_servicos") = 5 /\ Soma("vl_administracao") <= 10
    /\ out.maior_setor.setor = "Indústria"

RankFeito == out # <<>> /\ ~out.info

Codigos(t) == { t[i].codigo_municipio_dv : i \in DOMAIN t }

\* t is the first min(n, count) rows of the slice put in the order "antes".
PrimeirosDe(t, n, antes(_, _)) ==
    /\ Len(t) = Min(n, Len(df))
    /\ Range(t) \subseteq Range(df)
    /\ \A i, j \in DOMAIN t : i < j => t[i] # t[j] /\ antes(t[i], t[j])
    /\ \A r \in Range(df) \ Range(t) : \A i \in DOMAIN t : antes(t[i], r)

(***************************************************************************)
(* C10, as claimed.  The ranking is the first min(n, count) rows of the    *)
(* slice by descending value, rows of equal value by ascending             *)
(* municipality code, whatever the order the rows were loaded in (the      *)
(* bottom ranking likewise, ascending).                                    *)
(***************************************************************************)
C10_RankingAsClaimed ==
    RankFeito =>
        LET col == IF args.tipo = "PIB Total" THEN "vl_pib" ELSE "vl_pib_per_capta"
            desc(x, y) == x[col] > y[col]
                          \/ (x[col] = y[col] /\ x.codigo_municipio_dv < y.codigo_municipio_dv)
            asc(x, y) == x[col] < y[col]
                         \/ (x[col] = y[col] /\ x.codigo_municipio_dv < y.codigo_municipio_dv)
        IN /\ PrimeirosDe(out.df_ranking, args.num_ranking, desc)
           /\ out.inv => PrimeirosDe(out.df_ranking_inv, args.num_ranking, asc)

(***************************************************************************)
(* C10, amended.  The ranking is the first min(n, count) rows of the       *)
(* slice by descending value; the order among rows of equal value, and     *)
(* which of them fall within the first n, is not fixed by the value or     *)
(* the code.  The bottom ranking, made only when asked for, likewise       *)
(* ascending.                                                              *)
(***************************************************************************)
C10_Ranking ==
    RankFeito =>
        LET col == IF args.tipo = "PIB Total" THEN "vl_pib" ELSE "vl_pib_per_capta"
            desc(x, y) == x[col] >= y[col]
            asc(x, y) == x[col] <= y[col]
        IN /\ PrimeirosDe(out.df_ranking, args.num_ranking, desc)
           /\ Cardinality(Codigos(out.df_ranking)) = Len(out.df_ranking)
           /\ IF out.inv
              THEN PrimeirosDe(out.df_ranking_inv, args.num_ranking, asc)
              ELSE out.df_ranking_inv = <<>>
           /\ out.inv = args.menores

\* Six rows and a ranking of five: the slice is cut, and two municipalities
\* that hold the same value come out with the greater code first.
C10_Witness ==
    /\ RankFeito
    /\ args.tipo = "PIB Total"
    /\ Len(df) > args.num_ranking /\ Len(out.df_ranking) = args.num_ranking
    /\ \E i \in DOMAIN out.df_ranking : i + 1 \in DOMAIN out.df_ranking
         /\ out.df_ranking[i].vl_pib = out.df_ranking[i + 1].vl_pib
         /\ out.df_ranking[i].codigo_municipio_dv > out.df_ranking[i + 1].codigo_municipio_dv

PainelFeito == out # <<>> /\ out.fim = "painel"

SemCoordenada(r) == r.latitude = "NaN" \/ r.longitude = "NaN"

(***************************************************************************)
(* C11, as claimed.  A row of the last year that lacks a coordinate is on  *)
(* no point of the map, with its missing coordinate or with a zero, and    *)
(* is still in the ranking, in the table when it is shown, and in the      *)
(* sum and the count of its region and unit.                               *)
(***************************************************************************)
C11_GeoExclusion ==
    PainelFeito =>
        \A i \in DOMAIN df :
            (df[i].ano_pib = args.anos[2] /\ SemCoordenada(df[i])) =>
                LET r == df[i]
                    grupo == { j \in DOMAIN df :
                                 /\ df[j].ano_pib = args.anos[2]
                                 /\ df[j].cd_regiao = r.cd_regiao
                                 /\ df[j].nome_uf = r.nome_uf }
                IN /\ \A p \in Range(out.geo.mapa) :
                          p.codigo_municipio_dv # r.codigo_municipio_dv
                   /\ r \in Range(out.ranking.df_ranking)
                   /\ args.mostrar_tabela => r \in Range(out.tabela.linhas)
                   /\ out.geo.tem_regiao
                   /\ \E g \in out.geo.df_regiao :
                          /\ g.cd_regiao = r.cd_regiao /\ g.nome_uf = r.nome_uf
                          /\ g.num_municipios = Cardinality(grupo)

(***************************************************************************)
(* C13, as claimed.  In the series of the years of the table, a growth     *)
(* rate is shown for a year exactly when it has a year before it whose     *)
(* value is not zero, and is then (value - previous) / previous * 100;     *)
(* the first year and a year after a zero value have no point.             *)
(***************************************************************************)
C13_GrowthDefined ==
    PainelFeito =>
        LET anos == { df[i].ano_pib : i \in DOMAIN df }
            col == IF args.tipo = "PIB Total" THEN "vl_pib" ELSE "vl_pib_per_capta"
            soma(a) == TotalSetor(df, a, col, Len(df))
            conta(a) == IF args.tipo = "PIB Total" THEN 1
                        ELSE Cardinality({ i \in DOMAIN df : df[i].ano_pib = a })
            antes(a) == { b \in anos : b < a }
            prev(a) == CHOOSE b \in antes(a) : \A c \in antes(a) : c <= b
            pontos(a) == { p \in Range(out.evolucao.taxa) : p.ano_pib = a }
        IN \A a \in anos :
             IF antes(a) # {} /\ soma(prev(a)) # 0
             THEN /\ Cardinality(pontos(a)) = 1
                  /\ \A p \in pontos(a) :
                        /\ p.taxa_crescimento.tipo = "num"
                        /\ p.taxa_crescimento.num * soma(prev(a)) * conta(a)
                             = (soma(a) * conta(prev(a)) - soma(prev(a)) * conta(a))
                               * 100 * p.taxa_crescimento.den
             ELSE pontos(a) = {}

SemUltimoAno == \A i \in DOMAIN df : df[i].ano_pib # args.anos[2]

(***************************************************************************)
(* C14.  When the fact table has rows but none of the last year, the key   *)
(* indicators, the ranking, the sector composition and the geographic tab  *)
(* each end in their "no data" notice with no value computed, no error     *)
(* is reached, and the evolution chart and the table are still made.       *)
(***************************************************************************)
C14_EmptyDegrades ==
    (out # <<>> /\ df # <<>> /\ SemUltimoAno) =>
        /\ out.fim = "painel"
        /\ out.kpi = [info |-> TRUE]
        /\ out.ranking.info /\ out.ranking.df_ranking = <<>>
        /\ out.ranking.df_ranking_inv = <<>>
        /\ out.setorial.info /\ out.setorial.df_setorial_uf = {}
        /\ out.setorial.total_setorial = <<>>
        /\ out.geo.info /\ out.geo.mapa = <<>> /\ ~out.geo.tem_regiao
        /\ out.geo.df_regiao = {}
        /\ ~out.evolucao.info
        /\ { p.ano_pib : p \in Range(out.evolucao.df_evolucao) }
             = { df[i].ano_pib : i \in DOMAIN df }
        /\ args.mostrar_tabela => (out.tabela.mostrada /\ out.tabela.linhas = df)

\* Rows of 2019 and 2020 and none of 2021, the last year of the range: the
\* four notices, and the evolution chart with its growth rate.
C14_Witness ==
    /\ PainelFeito /\ SemUltimoAno
    /\ { df[i].ano_pib : i \in DOMAIN df } = {2019, 2020}
    /\ out.kpi.info /\ out.ranking.info /\ out.setorial.info /\ out.geo.info
    /\ out.evolucao.tem_taxa /\ Len(out.evolucao.taxa) = 1
    /\ out.tabela.mostrada

\* The run came to the fact load and ended without an error.
Completo(l) == l.fim \in {"painel", "aviso_sem_dados"} /\ l.erro = ""

(***************************************************************************)
(* C12, as claimed.  A run whose year range, set of units and set of       *)
(* municipality codes are those of a run that was completed before, in     *)
(* this or another session, fetches nothing from the storage, whatever     *)
(* the order the items were chosen in.                                     *)
(***************************************************************************)
C12_SharedAsClaimed ==
    [][\A s, t \in Sessions :
          ( /\ last'[s] # last[s]
            /\ Completo(last'[s]) /\ Completo(last[t])
            /\ last'[s].anos = last[t].anos
            /\ Range(last'[s].ufs) = Range(last[t].ufs)
            /\ Range(last'[s].codigos) = Range(last[t].codigos) )
          => last'[s].log = {}]_vars

(***************************************************************************)
(* C12, amended.  A run whose year range, list of units in the order       *)
(* chosen and set of municipality codes are those of a run that was        *)
(* completed before, in this or another session, fetches nothing from the  *)
(* storage, whatever the order the municipalities were chosen in.          *)
(***************************************************************************)
C12_Shared ==
    [][\A s, t \in Sessions :
          ( /\ last'[s] # last[s]
            /\ Completo(last'[s]) /\ Completo(last[t])
            /\ last'[s].anos = last[t].anos
            /\ last'[s].ufs = last[t].ufs
            /\ Range(last'[s].codigos) = Range(last[t].codigos) )
          => last'[s].log = {}]_vars

\* The first session fetched; the second chose the same units and the same
\* municipalities in another order and was served from the entries.
C12_Witness ==
    /\ last["s1"].fim = "painel" /\ last["s1"].log # {}
    /\ last["s2"].fim = "painel" /\ last["s2"].log = {}
    /\ last["s2"].anos = last["s1"].anos
    /\ last["s2"].ufs = last["s1"].ufs /\ Len(last["s1"].ufs) = 2
    /\ last["s2"].nomes # last["s1"].nomes
    /\ last["s2"].codigos = last["s1"].codigos

=============================================================================
